---- MODULE Spec2Model ----
(***************************************************************************)
(* Frame lifecycle and swapchain recreation of VKApplication               *)
(* (mainLoop, drawFrame, recreateSwapChain, cleanupSwapChain, cleanup).    *)
(* The host thread is a program counter walking through the GPU API calls  *)
(* of these functions; the GPU queues, the presentation engine and the     *)
(* window system are separate actions that interleave with it.             *)
(***************************************************************************)
EXTENDS Naturals, Integers, Sequences, FiniteSets

\* ---------------------------------------------------------------- bounds
MaxIter == 3        \* drawFrame iterations explored
NumImages == 3      \* images of a swapchain
MaxFaults == 1      \* failures returned by calls whose status is discarded
MaxModes == 3       \* present modes a surface reports

\* ------------------------------------------------------- program constants
MAX_FRAMES_IN_FLIGHT == 2
WIDTH == 800
HEIGHT == 600

Slots == 0 .. (MAX_FRAMES_IN_FLIGHT - 1)
Images == 0 .. (NumImages - 1)
\* framebuffer sizes the window reports: the size it was created with, zero
\* in both dimensions (minimized) and zero in one dimension only
WindowSizes == {<<WIDTH, HEIGHT>>, <<0, 0>>, <<WIDTH, 0>>}

VK_SUCCESS == "VK_SUCCESS"
VK_SUBOPTIMAL_KHR == "VK_SUBOPTIMAL_KHR"
VK_ERROR_OUT_OF_DATE_KHR == "VK_ERROR_OUT_OF_DATE_KHR"
VK_ERROR_DEVICE_LOST == "VK_ERROR_DEVICE_LOST"
NoResult == "none"

SwapchainResults == {VK_SUCCESS, VK_SUBOPTIMAL_KHR, VK_ERROR_OUT_OF_DATE_KHR, VK_ERROR_DEVICE_LOST}
CallResults == {VK_SUCCESS, VK_ERROR_DEVICE_LOST}

VARIABLES
    pc,                 \* position of the host thread
    currentFrame,       \* VKApplication::currentFrame
    framebufferResized, \* VKApplication::framebufferResized
    imageIndex,         \* drawFrame local imageIndex (NumImages = not acquired)
    result,             \* drawFrame local result
    width, height,      \* recreateSwapChain locals
    rcCaller,           \* which call site of recreateSwapChain is active
    csCaller,           \* which call site of cleanupSwapChain is active
    inFlightFences,     \* slot -> fence signaled
    imageAvailable,     \* slot -> number of unconsumed signals of imageAvailableSemaphores[slot]
    renderFinished,     \* slot -> number of unconsumed signals of renderFinishedSemaphores[slot]
    commandBuffers,     \* slot -> state of commandBuffers[slot]
    gfxQueue,           \* submissions pending on the graphics queue
    presentQueue,       \* present requests pending on the present queue
    imgState,           \* swapchain image -> "free" | "acquired" | "queued"
    swapChainAlive, imageViewsAlive, framebuffersAlive,
    swapChainExtent,    \* <<w, h>> of the current swapchain
    deviceAlive,        \* sync objects and logical device not yet destroyed
    winW, winH,         \* live framebuffer size of the window
    resizeEvent, closeEvent,  \* window events not yet dispatched
    shouldClose,        \* glfwWindowShouldClose(window)
    extentFixed,        \* the surface reports a currentExtent (not the UINT32_MAX wildcard)
    \* observation of the run (what a recording mock of the GPU API would see)
    calls,              \* GPU calls issued since the current iteration began
    rcStart,            \* Len(calls) when the active recreateSwapChain was entered
    iter,               \* drawFrame iterations started
    completed,          \* drawFrame iterations that reached the advance step
    entryFrame,         \* currentFrame at entry of the current iteration
    acquireResult,      \* status acquire returned in the current iteration
    presentResult,      \* status present returned in the current iteration
    resizedSeen,        \* framebufferResized as read by the post-present check
    recreated,          \* recreateSwapChain calls finished in the current iteration
    steady,             \* every iteration so far: acquire and present success, no resize flag
    slotLog,            \* slot used by each iteration that submitted
    presents,           \* vkQueuePresentKHR calls issued
    abortedPrev,        \* the previous iteration returned early on a stale acquire
    deviceFaults,       \* failures the calls with discarded status may still return
    fatalSeen,          \* some GPU call has returned a fatal status
    notified,           \* framebufferResizeCallback ran since the last recreateSwapChain began
    availablePresentModes,  \* swapChainSupport.presentModes of the surface
    presentMode         \* createInfo.presentMode of the current swapchain

hostVars == <<pc, currentFrame, framebufferResized, imageIndex, result, width, height, rcCaller, csCaller>>
gpuVars == <<inFlightFences, imageAvailable, renderFinished, commandBuffers, gfxQueue, presentQueue, imgState>>
swapVars == <<swapChainAlive, imageViewsAlive, framebuffersAlive, swapChainExtent, deviceAlive>>
winVars == <<winW, winH, resizeEvent, closeEvent, shouldClose, extentFixed>>
obsVars == <<calls, rcStart, iter, completed, entryFrame, acquireResult, presentResult, resizedSeen, recreated, steady, slotLog, presents, abortedPrev>>
faultVars == <<deviceFaults, fatalSeen>>
modeVars == <<availablePresentModes, presentMode>>
vars == <<hostVars, gpuVars, swapVars, winVars, obsVars, faultVars, modeVars, notified>>

\* ------------------------------------------------------------------ helpers
Log(c) == calls' = Append(calls, c)

NoImage == NumImages

\* statuses of the calls whose return value the program discards
\* (vkWaitForFences, vkResetFences, vkResetCommandBuffer, vkDeviceWaitIdle)
IgnoredResults == IF deviceFaults > 0 THEN CallResults ELSE {VK_SUCCESS}

\* a discarded status r has been returned
Discarded(r) ==
    /\ fatalSeen' = (fatalSeen \/ r # VK_SUCCESS)
    /\ deviceFaults' = IF r # VK_SUCCESS THEN deviceFaults - 1 ELSE deviceFaults

\* a status that is neither success nor one of the stale-surface statuses
Fatal(r) == r \notin {VK_SUCCESS, VK_SUBOPTIMAL_KHR, VK_ERROR_OUT_OF_DATE_KHR}

Returned(r) == fatalSeen' = (fatalSeen \/ Fatal(r))

SlotPending(i) == \E k \in 1 .. Len(gfxQueue) : gfxQueue[k].slot = i

PresentPending(i) == \E k \in 1 .. Len(presentQueue) : presentQueue[k].slot = i

Count(seq, c) == Cardinality({k \in 1 .. Len(seq) : seq[k] = c})

FreshImages == [im \in Images |-> "free"]

\* the images of a swapchain are interchangeable (drawFrame only passes the
\* index on), so the image the presentation engine hands out is represented
\* by the free image of lowest index; no free image: acquire does not return
LowestFree(im) ==
    /\ imgState[im] = "free"
    /\ \A o \in Images : imgState[o] = "free" => im <= o

\* the part of the observation an iteration resets when it begins
BeginIteration ==
    /\ calls' = <<>>
    /\ rcStart' = 0
    /\ iter' = iter + 1
    /\ entryFrame' = currentFrame
    /\ acquireResult' = NoResult
    /\ presentResult' = NoResult
    /\ resizedSeen' = FALSE
    /\ recreated' = 0
    /\ abortedPrev' = (acquireResult = VK_ERROR_OUT_OF_DATE_KHR)

\* ------------------------------------------------------- present modes
VK_PRESENT_MODE_IMMEDIATE_KHR == "VK_PRESENT_MODE_IMMEDIATE_KHR"
VK_PRESENT_MODE_MAILBOX_KHR == "VK_PRESENT_MODE_MAILBOX_KHR"
VK_PRESENT_MODE_FIFO_KHR == "VK_PRESENT_MODE_FIFO_KHR"
VK_PRESENT_MODE_FIFO_RELAXED_KHR == "VK_PRESENT_MODE_FIFO_RELAXED_KHR"
PresentModes ==
    {VK_PRESENT_MODE_IMMEDIATE_KHR, VK_PRESENT_MODE_MAILBOX_KHR,
     VK_PRESENT_MODE_FIFO_KHR, VK_PRESENT_MODE_FIFO_RELAXED_KHR}
NoMode == "unset"

\* the present modes the surface of the frame-loop model reports
SurfacePresentModes == <<VK_PRESENT_MODE_MAILBOX_KHR, VK_PRESENT_MODE_FIFO_KHR>>

\* for (const auto& availablePresentMode : availablePresentModes) {
\*     if (availablePresentMode == VK_PRESENT_MODE_MAILBOX_KHR) { availablePresentMode; }
\* }
\* return VK_PRESENT_MODE_FIFO_KHR;
\* the body of the if is an expression statement: it returns nothing and the
\* scan goes on to the next element
RECURSIVE chooseSwapPresentMode(_)
chooseSwapPresentMode(modes) ==
    IF modes = <<>> THEN VK_PRESENT_MODE_FIFO_KHR
    ELSE IF Head(modes) = VK_PRESENT_MODE_MAILBOX_KHR
         THEN chooseSwapPresentMode(Tail(modes))
         ELSE chooseSwapPresentMode(Tail(modes))

\* ---------------------------------------------------------------- initial
\* variant: the fences are created without VK_FENCE_CREATE_SIGNALED_BIT
FenceCreateSignaled_NoFlag == FALSE

\* createSyncObjects: fenceInfo.flags = VK_FENCE_CREATE_SIGNALED_BIT
FenceCreateSignaled == TRUE

\* state after initWindows() and initVulkan(): swapchain, image views and
\* framebuffers exist, the sync objects are created, nothing is submitted.
\* the members the constructor and initWindows set, and the empty observation
Constructed ==
    /\ currentFrame = 0
    /\ framebufferResized = FALSE
    /\ imageIndex = NoImage
    /\ result = NoResult
    /\ width = 0 /\ height = 0
    /\ rcCaller = "none"
    /\ csCaller = "none"
    /\ imageAvailable = [i \in Slots |-> 0]
    /\ renderFinished = [i \in Slots |-> 0]
    /\ commandBuffers = [i \in Slots |-> [state |-> "initial", image |-> NoImage, stale |-> FALSE]]
    /\ gfxQueue = <<>>
    /\ presentQueue = <<>>
    /\ imgState = FreshImages
    /\ winW = WIDTH /\ winH = HEIGHT
    /\ deviceAlive = TRUE
    /\ resizeEvent = FALSE /\ closeEvent = FALSE
    /\ shouldClose = FALSE
    /\ extentFixed \in BOOLEAN
    /\ calls = <<>>
    /\ rcStart = 0
    /\ iter = 0
    /\ completed = 0
    /\ entryFrame = 0
    /\ acquireResult = NoResult
    /\ presentResult = NoResult
    /\ resizedSeen = FALSE
    /\ recreated = 0
    /\ steady = TRUE
    /\ slotLog = <<>>
    /\ presents = 0
    /\ abortedPrev = FALSE
    /\ fatalSeen = FALSE
    /\ notified = FALSE

\* the state in which run() enters mainLoop: initVulkan has created the
\* swapchain for the window's size and the fences of every slot
Startup ==
    /\ Constructed
    /\ pc = "loop"
    /\ inFlightFences = [i \in Slots |-> FenceCreateSignaled]
    /\ swapChainAlive = TRUE /\ imageViewsAlive = TRUE /\ framebuffersAlive = TRUE
    /\ swapChainExtent = <<winW, winH>>
    /\ availablePresentModes = SurfacePresentModes
    /\ presentMode = chooseSwapPresentMode(availablePresentModes)

\* the discarded statuses are always VK_SUCCESS
Init == Startup /\ deviceFaults = 0

\* up to MaxFaults of the discarded statuses are failures
InitFaults == Startup /\ deviceFaults = MaxFaults

\* the lists of present modes a surface may report
ModeLists == UNION {[1 .. n -> PresentModes] : n \in 0 .. MaxModes}

\* initVulkan is about to call createSwapChain, on a surface reporting any
\* list of present modes
InitModes ==
    /\ Constructed
    /\ pc = "initVulkan"
    /\ inFlightFences = [i \in Slots |-> FALSE]
    /\ swapChainAlive = FALSE /\ imageViewsAlive = FALSE /\ framebuffersAlive = FALSE
    /\ swapChainExtent = <<0, 0>>
    /\ availablePresentModes \in ModeLists
    /\ presentMode = NoMode
    /\ deviceFaults = 0

\* ----------------------------------------------------------- window system
\* GLFW runs the callbacks of the pending events inside glfwPollEvents and
\* glfwWaitEvents: framebufferResizeCallback sets the flag, a close request
\* sets the window's close flag.
DispatchEvents ==
    /\ framebufferResized' = (framebufferResized \/ resizeEvent)
    /\ shouldClose' = (shouldClose \/ closeEvent)
    /\ resizeEvent' = FALSE
    /\ closeEvent' = FALSE
    /\ notified' = (notified \/ resizeEvent)

\* the user resizes, minimizes or restores the window
WindowResize ==
    /\ pc \notin {"done", "failed"}
    /\ UNCHANGED faultVars
    /\ \E sz \in WindowSizes :
        /\ sz # <<winW, winH>>
        /\ winW' = sz[1] /\ winH' = sz[2]
    /\ resizeEvent' = TRUE
    /\ UNCHANGED <<closeEvent, shouldClose, extentFixed>>
    /\ UNCHANGED <<hostVars, gpuVars, swapVars, obsVars>>
    /\ UNCHANGED <<modeVars, notified>>

\* the user presses the close button
WindowClose ==
    /\ pc \notin {"done", "failed"}
    /\ UNCHANGED faultVars
    /\ ~closeEvent /\ ~shouldClose
    /\ closeEvent' = TRUE
    /\ UNCHANGED <<winW, winH, resizeEvent, shouldClose, extentFixed>>
    /\ UNCHANGED <<hostVars, gpuVars, swapVars, obsVars>>
    /\ UNCHANGED <<modeVars, notified>>

\* ------------------------------------------------------------------- GPU
\* the graphics queue finishes its oldest submission: the wait on the slot's
\* image-available semaphore is consumed, render-finished and the fence are
\* signaled (vkQueueSubmit arguments of drawFrame).
GpuExecute ==
    /\ gfxQueue # <<>>
    /\ UNCHANGED faultVars
    /\ LET e == Head(gfxQueue) IN
        /\ imageAvailable[e.slot] > 0
        /\ imageAvailable' = [imageAvailable EXCEPT ![e.slot] = @ - 1]
        /\ renderFinished' = [renderFinished EXCEPT ![e.slot] = @ + 1]
        /\ inFlightFences' = [inFlightFences EXCEPT ![e.slot] = TRUE]
    /\ gfxQueue' = Tail(gfxQueue)
    /\ UNCHANGED <<commandBuffers, presentQueue, imgState>>
    /\ UNCHANGED <<hostVars, swapVars, winVars, obsVars>>
    /\ UNCHANGED <<modeVars, notified>>

\* the present queue executes its oldest request once the render-finished
\* semaphore it waits on is signaled; the image goes back to the swapchain.
PresentExecute ==
    /\ presentQueue # <<>>
    /\ UNCHANGED faultVars
    /\ LET p == Head(presentQueue) IN
        /\ renderFinished[p.slot] > 0
        /\ renderFinished' = [renderFinished EXCEPT ![p.slot] = @ - 1]
        /\ imgState' = IF ~p.stale /\ swapChainAlive
                       THEN [imgState EXCEPT ![p.image] = "free"]
                       ELSE imgState
    /\ presentQueue' = Tail(presentQueue)
    /\ UNCHANGED <<inFlightFences, imageAvailable, commandBuffers, gfxQueue>>
    /\ UNCHANGED <<hostVars, swapVars, winVars, obsVars>>
    /\ UNCHANGED <<modeVars, notified>>

\* -------------------------------------------------------------- mainLoop
\* while (!glfwWindowShouldClose(window))
MainLoopTest ==
    /\ pc = "loop"
    /\ UNCHANGED faultVars
    /\ IF shouldClose
       THEN pc' = "exitIdle"
       ELSE /\ iter < MaxIter
            /\ pc' = "poll"
    /\ UNCHANGED <<currentFrame, framebufferResized, imageIndex, result, width, height, rcCaller, csCaller>>
    /\ UNCHANGED <<gpuVars, swapVars, winVars, obsVars>>
    /\ UNCHANGED <<modeVars, notified>>

\* variant: mainLoop pumps the events with the blocking glfwWaitEvents()
PollEvents_Waits ==
    /\ pc = "poll"
    /\ resizeEvent \/ closeEvent
    /\ UNCHANGED faultVars
    /\ DispatchEvents
    /\ pc' = "waitFence"
    /\ imageIndex' = NoImage
    /\ result' = NoResult
    /\ BeginIteration
    /\ steady' = (steady /\ ~framebufferResized')
    /\ UNCHANGED <<currentFrame, width, height, rcCaller, csCaller, winW, winH, extentFixed>>
    /\ UNCHANGED <<completed, slotLog, presents>>
    /\ UNCHANGED <<gpuVars, swapVars>>
    /\ UNCHANGED modeVars

\* glfwPollEvents(); then drawFrame() is entered
PollEvents ==
    /\ pc = "poll"
    /\ UNCHANGED faultVars
    /\ DispatchEvents
    /\ pc' = "waitFence"
    /\ imageIndex' = NoImage
    /\ result' = NoResult
    /\ BeginIteration
    /\ steady' = (steady /\ ~framebufferResized')
    /\ UNCHANGED <<currentFrame, width, height, rcCaller, csCaller, winW, winH, extentFixed>>
    /\ UNCHANGED <<completed, slotLog, presents>>
    /\ UNCHANGED <<gpuVars, swapVars>>
    /\ UNCHANGED modeVars

\* ------------------------------------------------------------- drawFrame
\* variant: the wait returns without the fence being signaled (zero timeout)
FenceWaitReturns_NoWait(signaled) == TRUE

\* vkWaitForFences(..., UINT64_MAX) returns VK_SUCCESS once the fence is signaled
FenceWaitReturns(signaled) == signaled

\* variant: the fence is reset right after the wait, before acquire (the
\* order of the earlier revision of drawFrame)
WaitForFences_ResetEarly ==
    /\ pc = "waitFence"
    /\ \E r \in IgnoredResults :
        /\ r = VK_SUCCESS => FenceWaitReturns(inFlightFences[currentFrame])
        /\ Discarded(r)
    /\ inFlightFences' = [inFlightFences EXCEPT ![currentFrame] = FALSE]
    /\ pc' = "acquire"
    /\ calls' = calls \o <<"waitFence", "resetFence">>
    /\ UNCHANGED <<currentFrame, framebufferResized, imageIndex, result, width, height, rcCaller, csCaller>>
    /\ UNCHANGED <<rcStart, iter, completed, entryFrame, acquireResult, presentResult, resizedSeen, recreated, steady, slotLog, presents, abortedPrev>>
    /\ UNCHANGED <<imageAvailable, renderFinished, commandBuffers, gfxQueue, presentQueue, imgState>>
    /\ UNCHANGED <<swapVars, winVars>>
    /\ UNCHANGED <<modeVars, notified>>

\* vkWaitForFences(logicalDevice, 1, &inFlightFences[currentFrame], VK_TRUE,
\* UINT64_MAX); the status is discarded
WaitForFences ==
    /\ pc = "waitFence"
    /\ \E r \in IgnoredResults :
        /\ r = VK_SUCCESS => FenceWaitReturns(inFlightFences[currentFrame])
        /\ Discarded(r)
    /\ pc' = "acquire"
    /\ Log("waitFence")
    /\ UNCHANGED <<currentFrame, framebufferResized, imageIndex, result, width, height, rcCaller, csCaller>>
    /\ UNCHANGED <<rcStart, iter, completed, entryFrame, acquireResult, presentResult, resizedSeen, recreated, steady, slotLog, presents, abortedPrev>>
    /\ UNCHANGED <<gpuVars, swapVars, winVars>>
    /\ UNCHANGED <<modeVars, notified>>

\* variant: a suboptimal acquire is handled like an out-of-date one
AcquireBranch_SuboptimalAborts(r) ==
    IF r = VK_ERROR_OUT_OF_DATE_KHR \/ r = VK_SUBOPTIMAL_KHR THEN "recreate"
    ELSE IF r # VK_SUCCESS THEN "throw"
    ELSE "continue"

\* variant: every status of acquire other than success and out-of-date throws
AcquireBranch_SuboptimalThrows(r) ==
    IF r = VK_ERROR_OUT_OF_DATE_KHR THEN "recreate"
    ELSE IF r # VK_SUCCESS THEN "throw"
    ELSE "continue"

\* where drawFrame goes after vkAcquireNextImageKHR returned r
AcquireBranch(r) ==
    IF r = VK_ERROR_OUT_OF_DATE_KHR THEN "recreate"
    ELSE IF r # VK_SUCCESS /\ r # VK_SUBOPTIMAL_KHR THEN "throw"
    ELSE "continue"

\* entry of recreateSwapChain() from the call site `caller`
EnterRecreate(caller) ==
    /\ pc' = "rcSize"
    /\ rcCaller' = caller
    /\ rcStart' = Len(calls')
    /\ notified' = FALSE

AcquireNextImage ==
    /\ pc = "acquire"
    /\ \E r \in SwapchainResults :
        /\ result' = r
        /\ acquireResult' = r
        /\ Returned(r)
        /\ steady' = (steady /\ r = VK_SUCCESS)
        /\ Log("acquire")
        /\ IF r \in {VK_SUCCESS, VK_SUBOPTIMAL_KHR}
           THEN \E im \in Images :
                    /\ LowestFree(im)
                    /\ imageIndex' = im
                    /\ imgState' = [imgState EXCEPT ![im] = "acquired"]
                    /\ imageAvailable' = [imageAvailable EXCEPT ![currentFrame] = @ + 1]
           ELSE UNCHANGED <<imageIndex, imgState, imageAvailable>>
        /\ CASE AcquireBranch(r) = "recreate" -> EnterRecreate("acquire")
             [] AcquireBranch(r) = "throw" -> pc' = "failed" /\ UNCHANGED <<rcCaller, rcStart, notified>>
             [] OTHER -> pc' = "update" /\ UNCHANGED <<rcCaller, rcStart, notified>>
    /\ UNCHANGED <<currentFrame, framebufferResized, width, height, csCaller, deviceFaults>>
    /\ UNCHANGED <<inFlightFences, renderFinished, commandBuffers, gfxQueue, presentQueue>>
    /\ UNCHANGED <<iter, completed, entryFrame, presentResult, resizedSeen, recreated, slotLog, presents, abortedPrev>>
    /\ UNCHANGED <<swapVars, winVars>>
    /\ UNCHANGED modeVars

\* updateUniformBuffer(currentFrame)
UpdateUniformBuffer ==
    /\ pc = "update"
    /\ UNCHANGED faultVars
    /\ pc' = "resetFence"
    /\ Log("updateUniform")
    /\ UNCHANGED <<currentFrame, framebufferResized, imageIndex, result, width, height, rcCaller, csCaller>>
    /\ UNCHANGED <<rcStart, iter, completed, entryFrame, acquireResult, presentResult, resizedSeen, recreated, steady, slotLog, presents, abortedPrev>>
    /\ UNCHANGED <<gpuVars, swapVars, winVars>>
    /\ UNCHANGED <<modeVars, notified>>

\* vkResetFences(logicalDevice, 1, &inFlightFences[currentFrame]); the status
\* is discarded, a failed reset leaves the fence as it was
ResetFences ==
    /\ pc = "resetFence"
    /\ \E r \in IgnoredResults :
        /\ inFlightFences' = IF r = VK_SUCCESS
                             THEN [inFlightFences EXCEPT ![currentFrame] = FALSE]
                             ELSE inFlightFences
        /\ Discarded(r)
    /\ pc' = "resetCmd"
    /\ Log("resetFence")
    /\ UNCHANGED <<currentFrame, framebufferResized, imageIndex, result, width, height, rcCaller, csCaller>>
    /\ UNCHANGED <<imageAvailable, renderFinished, commandBuffers, gfxQueue, presentQueue, imgState>>
    /\ UNCHANGED <<rcStart, iter, completed, entryFrame, acquireResult, presentResult, resizedSeen, recreated, steady, slotLog, presents, abortedPrev>>
    /\ UNCHANGED <<swapVars, winVars>>
    /\ UNCHANGED <<modeVars, notified>>

\* vkResetCommandBuffer(commandBuffers[currentFrame], 0); the status is
\* discarded, a failed reset leaves the command buffer as it was
ResetCommandBuffer ==
    /\ pc = "resetCmd"
    /\ \E r \in IgnoredResults :
        /\ commandBuffers' = IF r = VK_SUCCESS
                             THEN [commandBuffers EXCEPT ![currentFrame] =
                                     [state |-> "initial", image |-> NoImage, stale |-> FALSE]]
                             ELSE commandBuffers
        /\ Discarded(r)
    /\ pc' = "record"
    /\ Log("resetCmd")
    /\ UNCHANGED <<currentFrame, framebufferResized, imageIndex, result, width, height, rcCaller, csCaller>>
    /\ UNCHANGED <<inFlightFences, imageAvailable, renderFinished, gfxQueue, presentQueue, imgState>>
    /\ UNCHANGED <<rcStart, iter, completed, entryFrame, acquireResult, presentResult, resizedSeen, recreated, steady, slotLog, presents, abortedPrev>>
    /\ UNCHANGED <<swapVars, winVars>>
    /\ UNCHANGED <<modeVars, notified>>

\* recordCommandBuffer(commandBuffers[currentFrame], imageIndex):
\* vkBeginCommandBuffer, the render pass on swapChainFramebuffers[imageIndex],
\* vkEndCommandBuffer; either of the two checked calls may fail
RecordCommandBuffer ==
    /\ pc = "record"
    /\ Log("record")
    /\ \E rb \in CallResults, re \in CallResults :
        /\ fatalSeen' = (fatalSeen \/ Fatal(rb) \/ Fatal(re))
        /\ IF rb # VK_SUCCESS \/ re # VK_SUCCESS
           THEN /\ pc' = "failed"
                /\ commandBuffers' = [commandBuffers EXCEPT ![currentFrame].state = "invalid"]
           ELSE /\ pc' = "submit"
                /\ commandBuffers' = [commandBuffers EXCEPT ![currentFrame] =
                                        [state |-> "executable", image |-> imageIndex, stale |-> FALSE]]
    /\ UNCHANGED deviceFaults
    /\ UNCHANGED <<currentFrame, framebufferResized, imageIndex, result, width, height, rcCaller, csCaller>>
    /\ UNCHANGED <<inFlightFences, imageAvailable, renderFinished, gfxQueue, presentQueue, imgState>>
    /\ UNCHANGED <<rcStart, iter, completed, entryFrame, acquireResult, presentResult, resizedSeen, recreated, steady, slotLog, presents, abortedPrev>>
    /\ UNCHANGED <<swapVars, winVars>>
    /\ UNCHANGED <<modeVars, notified>>

\* submitInfo: waits on imageAvailableSemaphores[f], executes commandBuffers[f],
\* signals renderFinishedSemaphores[f]; the fence passed is inFlightFences[f]
SubmitInfo(f, cb) == [slot |-> f, image |-> cb.image, stale |-> cb.stale]

\* vkQueueSubmit(graphicsQueue, 1, &submitInfo, inFlightFences[currentFrame])
QueueSubmit ==
    /\ pc = "submit"
    /\ Log("submit")
    /\ \E r \in CallResults :
        /\ Returned(r)
        /\ IF r # VK_SUCCESS
           THEN pc' = "failed" /\ UNCHANGED <<gfxQueue, slotLog>>
           ELSE /\ pc' = "present"
                /\ gfxQueue' = Append(gfxQueue, SubmitInfo(currentFrame, commandBuffers[currentFrame]))
                /\ slotLog' = Append(slotLog, currentFrame)
    /\ UNCHANGED deviceFaults
    /\ UNCHANGED <<currentFrame, framebufferResized, imageIndex, result, width, height, rcCaller, csCaller>>
    /\ UNCHANGED <<inFlightFences, imageAvailable, renderFinished, commandBuffers, presentQueue, imgState>>
    /\ UNCHANGED <<rcStart, iter, completed, entryFrame, acquireResult, presentResult, resizedSeen, recreated, steady, presents, abortedPrev>>
    /\ UNCHANGED <<swapVars, winVars>>
    /\ UNCHANGED <<modeVars, notified>>

\* variant: the resize flag is not looked at
PresentBranch_IgnoresResize(r, resized) ==
    IF r = VK_ERROR_OUT_OF_DATE_KHR \/ r = VK_SUBOPTIMAL_KHR THEN "recreate"
    ELSE IF r # VK_SUCCESS THEN "throw"
    ELSE "advance"

\* variant: a stale status from present is accepted without recreating
PresentBranch_IgnoresStale(r, resized) ==
    IF resized THEN "recreate"
    ELSE IF Fatal(r) THEN "throw"
    ELSE "advance"

\* where drawFrame goes after vkQueuePresentKHR returned r
PresentBranch(r, resized) ==
    IF r = VK_ERROR_OUT_OF_DATE_KHR \/ r = VK_SUBOPTIMAL_KHR \/ resized THEN "recreate"
    ELSE IF r # VK_SUCCESS THEN "throw"
    ELSE "advance"

\* presentInfo: waits on signalSemaphores (renderFinishedSemaphores[f]) and
\* presents image im of the swapchain
PresentInfo(f, im) == [slot |-> f, image |-> im, stale |-> FALSE]

\* variant: the post-present check recreates without clearing the flag
ResizeHandled_NotCleared == framebufferResized

\* framebufferResized = false; in the recreate branch of the post-present check
ResizeHandled == FALSE

\* vkQueuePresentKHR(presentQueue, &presentInfo) and the check of its result
QueuePresent ==
    /\ pc = "present"
    /\ Log("present")
    /\ presents' = presents + 1
    /\ \E r \in SwapchainResults :
        /\ result' = r
        /\ presentResult' = r
        /\ Returned(r)
        /\ resizedSeen' = framebufferResized
        /\ steady' = (steady /\ r = VK_SUCCESS /\ ~framebufferResized)
        /\ IF r # VK_ERROR_DEVICE_LOST
           THEN /\ presentQueue' = Append(presentQueue, PresentInfo(currentFrame, imageIndex))
                /\ imgState' = [imgState EXCEPT ![imageIndex] = "queued"]
           ELSE UNCHANGED <<presentQueue, imgState>>
        /\ CASE PresentBranch(r, framebufferResized) = "recreate" ->
                    /\ framebufferResized' = ResizeHandled
                    /\ EnterRecreate("present")
             [] PresentBranch(r, framebufferResized) = "throw" ->
                    /\ pc' = "failed"
                    /\ UNCHANGED <<framebufferResized, rcCaller, rcStart, notified>>
             [] OTHER ->
                    /\ pc' = "advance"
                    /\ UNCHANGED <<framebufferResized, rcCaller, rcStart, notified>>
    /\ UNCHANGED <<currentFrame, imageIndex, width, height, csCaller, deviceFaults>>
    /\ UNCHANGED <<inFlightFences, imageAvailable, renderFinished, commandBuffers, gfxQueue>>
    /\ UNCHANGED <<iter, completed, entryFrame, acquireResult, recreated, slotLog, abortedPrev>>
    /\ UNCHANGED <<swapVars, winVars>>
    /\ UNCHANGED modeVars

\* variant: the modulo is missing
NextFrame_NoWrap(f) == f + 1

\* variant: the counter is never advanced
NextFrame_Stuck(f) == f

\* currentFrame = (currentFrame + 1) % MAX_FRAMES_IN_FLIGHT
NextFrame(f) == (f + 1) % MAX_FRAMES_IN_FLIGHT

AdvanceFrame ==
    /\ pc = "advance"
    /\ UNCHANGED faultVars
    /\ currentFrame' = NextFrame(currentFrame)
    /\ completed' = completed + 1
    /\ pc' = "loop"
    /\ imageIndex' = NoImage
    /\ result' = NoResult
    /\ UNCHANGED <<framebufferResized, width, height, rcCaller, csCaller>>
    /\ UNCHANGED <<calls, rcStart, iter, entryFrame, acquireResult, presentResult, resizedSeen, recreated, steady, slotLog, presents, abortedPrev>>
    /\ UNCHANGED <<gpuVars, swapVars, winVars>>
    /\ UNCHANGED <<modeVars, notified>>

\* ----------------------------------------------------- recreateSwapChain
\* variant: && instead of ||
Minimized_And(w, h) == w = 0 /\ h = 0

\* loop condition of the minimized-window wait
Minimized(w, h) == w = 0 \/ h = 0

\* variant: the idle-wait is missing
DeviceIdle_NoWait == TRUE

\* all queues of the device are drained (vkDeviceWaitIdle returns)
DeviceIdle == gfxQueue = <<>> /\ presentQueue = <<>>

\* int width = 0, height = 0; glfwGetFramebufferSize(window, &width, &height);
\* then the first evaluation of while (width == 0 || height == 0)
GetFramebufferSize ==
    /\ pc = "rcSize"
    /\ UNCHANGED faultVars
    /\ width' = winW /\ height' = winH
    /\ pc' = IF Minimized(width', height') THEN "rcSizeLoop" ELSE "rcIdle"
    /\ UNCHANGED <<currentFrame, framebufferResized, imageIndex, result, rcCaller, csCaller>>
    /\ UNCHANGED <<gpuVars, swapVars, winVars, obsVars>>
    /\ UNCHANGED <<modeVars, notified>>

\* glfwGetFramebufferSize(window, &width, &height) in the loop body
GetFramebufferSizeLoop ==
    /\ pc = "rcSizeLoop"
    /\ UNCHANGED faultVars
    /\ width' = winW /\ height' = winH
    /\ pc' = "rcWaitEvents"
    /\ UNCHANGED <<currentFrame, framebufferResized, imageIndex, result, rcCaller, csCaller>>
    /\ UNCHANGED <<gpuVars, swapVars, winVars, obsVars>>
    /\ UNCHANGED <<modeVars, notified>>

\* glfwWaitEvents() in the loop body: sleeps until an event is pending,
\* dispatches it; then the loop condition is evaluated again
WaitEvents ==
    /\ pc = "rcWaitEvents"
    /\ UNCHANGED faultVars
    /\ resizeEvent \/ closeEvent
    /\ DispatchEvents
    /\ pc' = IF Minimized(width, height) THEN "rcSizeLoop" ELSE "rcIdle"
    /\ UNCHANGED <<currentFrame, imageIndex, result, width, height, rcCaller, csCaller, winW, winH, extentFixed>>
    /\ UNCHANGED <<gpuVars, swapVars, obsVars>>
    /\ UNCHANGED modeVars

\* vkDeviceWaitIdle(logicalDevice), its status discarded; then
\* cleanupSwapChain() is entered
DeviceWaitIdle ==
    /\ pc = "rcIdle"
    /\ \E r \in IgnoredResults :
        /\ r = VK_SUCCESS => DeviceIdle
        /\ Discarded(r)
    /\ Log("idle")
    /\ pc' = "csFramebuffers"
    /\ csCaller' = "recreate"
    /\ UNCHANGED <<currentFrame, framebufferResized, imageIndex, result, width, height, rcCaller>>
    /\ UNCHANGED <<rcStart, iter, completed, entryFrame, acquireResult, presentResult, resizedSeen, recreated, steady, slotLog, presents, abortedPrev>>
    /\ UNCHANGED <<gpuVars, swapVars, winVars>>
    /\ UNCHANGED <<modeVars, notified>>

\* ------------------------------------------------------ cleanupSwapChain
\* order in which cleanupSwapChain destroys: step after `step`
CleanupNext(step) ==
    CASE step = "csFramebuffers" -> "csImageViews"
      [] step = "csImageViews" -> "csSwapChain"
      [] OTHER -> "csReturn"

\* variant: the swapchain is destroyed first, the framebuffers last
CleanupTarget_SwapChainFirst(step) ==
    CASE step = "csFramebuffers" -> "destroySwapChain"
      [] step = "csImageViews" -> "destroyImageViews"
      [] OTHER -> "destroyFramebuffers"

\* what the step at `step` destroys
CleanupTarget(step) ==
    CASE step = "csFramebuffers" -> "destroyFramebuffers"
      [] step = "csImageViews" -> "destroyImageViews"
      [] OTHER -> "destroySwapChain"

\* variant: cleanupSwapChain also frees the command buffers
CleanupSwapChainStep_FreesCommandBuffers ==
    /\ pc \in {"csFramebuffers", "csImageViews", "csSwapChain"}
    /\ UNCHANGED faultVars
    /\ Log(CleanupTarget(pc))
    /\ framebuffersAlive' = (framebuffersAlive /\ CleanupTarget(pc) # "destroyFramebuffers")
    /\ imageViewsAlive' = (imageViewsAlive /\ CleanupTarget(pc) # "destroyImageViews")
    /\ swapChainAlive' = (swapChainAlive /\ CleanupTarget(pc) # "destroySwapChain")
    /\ pc' = IF CleanupNext(pc) = "csReturn"
             THEN (IF csCaller = "recreate" THEN "createSwapChain" ELSE "cleanupRest")
             ELSE CleanupNext(pc)
    /\ UNCHANGED <<currentFrame, framebufferResized, imageIndex, result, width, height, rcCaller, csCaller>>
    /\ UNCHANGED <<swapChainExtent, deviceAlive>>
    /\ UNCHANGED <<rcStart, iter, completed, entryFrame, acquireResult, presentResult, resizedSeen, recreated, steady, slotLog, presents, abortedPrev>>
    /\ commandBuffers' = [i \in Slots |-> [state |-> "initial", image |-> NoImage, stale |-> FALSE]]
    /\ UNCHANGED <<inFlightFences, imageAvailable, renderFinished, gfxQueue, presentQueue, imgState>>
    /\ UNCHANGED winVars
    /\ UNCHANGED <<modeVars, notified>>

CleanupSwapChainStep ==
    /\ pc \in {"csFramebuffers", "csImageViews", "csSwapChain"}
    /\ UNCHANGED faultVars
    /\ Log(CleanupTarget(pc))
    /\ framebuffersAlive' = (framebuffersAlive /\ CleanupTarget(pc) # "destroyFramebuffers")
    /\ imageViewsAlive' = (imageViewsAlive /\ CleanupTarget(pc) # "destroyImageViews")
    /\ swapChainAlive' = (swapChainAlive /\ CleanupTarget(pc) # "destroySwapChain")
    /\ pc' = IF CleanupNext(pc) = "csReturn"
             THEN (IF csCaller = "recreate" THEN "createSwapChain" ELSE "cleanupRest")
             ELSE CleanupNext(pc)
    /\ UNCHANGED <<currentFrame, framebufferResized, imageIndex, result, width, height, rcCaller, csCaller>>
    /\ UNCHANGED <<swapChainExtent, deviceAlive>>
    /\ UNCHANGED <<rcStart, iter, completed, entryFrame, acquireResult, presentResult, resizedSeen, recreated, steady, slotLog, presents, abortedPrev>>
    /\ UNCHANGED <<gpuVars, winVars>>
    /\ UNCHANGED <<modeVars, notified>>

\* ------------------------------------------- createSwapChain and followers
\* chooseSwapExtent: the surface's currentExtent when it is fixed, else the
\* window's framebuffer size clamped to [minImageExtent, maxImageExtent]
Clamp(v, lo, hi) == IF v < lo THEN lo ELSE IF hi < v THEN hi ELSE v

chooseSwapExtent(fixed, curW, curH, fbW, fbH, minW, minH, maxW, maxH) ==
    IF fixed THEN <<curW, curH>>
    ELSE <<Clamp(fbW, minW, maxW), Clamp(fbH, minH, maxH)>>

\* what refers to the swapchain that was replaced refers to a destroyed one
MarkStale(e) == [e EXCEPT !.stale = TRUE]

CreateSwapChain ==
    /\ pc = "createSwapChain"
    /\ Log("createSwapChain")
    /\ \E r \in CallResults :
        /\ Returned(r)
        /\ IF r # VK_SUCCESS
           THEN /\ pc' = "failed"
                /\ UNCHANGED <<swapChainAlive, swapChainExtent, imgState, commandBuffers, gfxQueue, presentQueue, presentMode>>
           ELSE /\ pc' = "createImageViews"
                /\ swapChainAlive' = TRUE
                /\ presentMode' = chooseSwapPresentMode(availablePresentModes)
                /\ swapChainExtent' = chooseSwapExtent(extentFixed, winW, winH, winW, winH, 1, 1, WIDTH, HEIGHT)
                /\ imgState' = FreshImages
                /\ commandBuffers' = [i \in Slots |-> MarkStale(commandBuffers[i])]
                /\ gfxQueue' = [k \in 1 .. Len(gfxQueue) |-> MarkStale(gfxQueue[k])]
                /\ presentQueue' = [k \in 1 .. Len(presentQueue) |-> MarkStale(presentQueue[k])]
    /\ UNCHANGED deviceFaults
    /\ UNCHANGED <<currentFrame, framebufferResized, imageIndex, result, width, height, rcCaller, csCaller>>
    /\ UNCHANGED <<inFlightFences, imageAvailable, renderFinished>>
    /\ UNCHANGED <<imageViewsAlive, framebuffersAlive, deviceAlive>>
    /\ UNCHANGED <<rcStart, iter, completed, entryFrame, acquireResult, presentResult, resizedSeen, recreated, steady, slotLog, presents, abortedPrev>>
    /\ UNCHANGED winVars
    /\ UNCHANGED <<availablePresentModes, notified>>

CreateImageViews ==
    /\ pc = "createImageViews"
    /\ Log("createImageViews")
    /\ \E r \in CallResults :
        /\ Returned(r)
        /\ IF r # VK_SUCCESS
           THEN pc' = "failed" /\ UNCHANGED imageViewsAlive
           ELSE pc' = "createFramebuffers" /\ imageViewsAlive' = TRUE
    /\ UNCHANGED deviceFaults
    /\ UNCHANGED <<currentFrame, framebufferResized, imageIndex, result, width, height, rcCaller, csCaller>>
    /\ UNCHANGED <<swapChainAlive, framebuffersAlive, swapChainExtent, deviceAlive>>
    /\ UNCHANGED <<rcStart, iter, completed, entryFrame, acquireResult, presentResult, resizedSeen, recreated, steady, slotLog, presents, abortedPrev>>
    /\ UNCHANGED <<gpuVars, winVars>>
    /\ UNCHANGED <<modeVars, notified>>

\* variant: drawFrame also returns after the present-side recreateSwapChain()
RecreateReturn_SkipsAdvance(caller) == "loop"

\* variant: the `return` after the acquire-side recreateSwapChain() is missing
RecreateReturn_NoReturn(caller) == IF caller = "acquire" THEN "update" ELSE "advance"

\* where control continues when recreateSwapChain returns to `caller`:
\* the acquire call site returns from drawFrame, the present call site
\* falls through to the advance step
RecreateReturn(caller) == IF caller = "acquire" THEN "loop" ELSE "advance"

\* createFramebuffers(); recreateSwapChain returns
CreateFramebuffers ==
    /\ pc = "createFramebuffers"
    /\ Log("createFramebuffers")
    /\ \E r \in CallResults :
        /\ Returned(r)
        /\ IF r # VK_SUCCESS
           THEN /\ pc' = "failed"
                /\ UNCHANGED <<framebuffersAlive, rcCaller, csCaller, recreated, width, height, result>>
           ELSE /\ pc' = RecreateReturn(rcCaller)
                /\ framebuffersAlive' = TRUE
                /\ rcCaller' = "none"
                /\ csCaller' = "none"
                /\ recreated' = recreated + 1
                /\ width' = 0 /\ height' = 0
                /\ result' = IF pc' = "loop" THEN NoResult ELSE result
    /\ UNCHANGED deviceFaults
    /\ UNCHANGED <<currentFrame, framebufferResized, imageIndex>>
    /\ UNCHANGED <<swapChainAlive, imageViewsAlive, swapChainExtent, deviceAlive>>
    /\ UNCHANGED <<rcStart, iter, completed, entryFrame, acquireResult, presentResult, resizedSeen, steady, slotLog, presents, abortedPrev>>
    /\ UNCHANGED <<gpuVars, winVars>>
    /\ UNCHANGED <<modeVars, notified>>

\* ------------------------------------------------- mainLoop exit, cleanup
\* vkDeviceWaitIdle(logicalDevice) after the loop; cleanup() is entered
ExitWaitIdle ==
    /\ pc = "exitIdle"
    /\ \E r \in IgnoredResults :
        /\ r = VK_SUCCESS => DeviceIdle
        /\ Discarded(r)
    /\ Log("idle")
    /\ pc' = "csFramebuffers"
    /\ csCaller' = "cleanup"
    /\ UNCHANGED <<currentFrame, framebufferResized, imageIndex, result, width, height, rcCaller>>
    /\ UNCHANGED <<rcStart, iter, completed, entryFrame, acquireResult, presentResult, resizedSeen, recreated, steady, slotLog, presents, abortedPrev>>
    /\ UNCHANGED <<gpuVars, swapVars, winVars>>
    /\ UNCHANGED <<modeVars, notified>>

\* the rest of cleanup(): pipeline, buffers, semaphores, fences, device
CleanupRest ==
    /\ pc = "cleanupRest"
    /\ UNCHANGED faultVars
    /\ deviceAlive' = FALSE
    /\ pc' = "done"
    /\ Log("destroyDevice")
    /\ UNCHANGED <<currentFrame, framebufferResized, imageIndex, result, width, height, rcCaller, csCaller>>
    /\ UNCHANGED <<swapChainAlive, imageViewsAlive, framebuffersAlive, swapChainExtent>>
    /\ UNCHANGED <<rcStart, iter, completed, entryFrame, acquireResult, presentResult, resizedSeen, recreated, steady, slotLog, presents, abortedPrev>>
    /\ UNCHANGED <<gpuVars, winVars>>
    /\ UNCHANGED <<modeVars, notified>>

\* ------------------------------------------------------------- initVulkan
\* createSwapChain() ... createSyncObjects() of initVulkan: the swapchain is
\* created with the present mode chooseSwapPresentMode returns for the
\* surface's list, and every fence is created
InitVulkan ==
    /\ pc = "initVulkan"
    /\ pc' = "loop"
    /\ presentMode' = chooseSwapPresentMode(availablePresentModes)
    /\ swapChainExtent' = chooseSwapExtent(extentFixed, winW, winH, winW, winH, 1, 1, WIDTH, HEIGHT)
    /\ swapChainAlive' = TRUE /\ imageViewsAlive' = TRUE /\ framebuffersAlive' = TRUE
    /\ inFlightFences' = [i \in Slots |-> FenceCreateSignaled]
    /\ UNCHANGED <<currentFrame, framebufferResized, imageIndex, result, width, height, rcCaller, csCaller>>
    /\ UNCHANGED <<imageAvailable, renderFinished, commandBuffers, gfxQueue, presentQueue, imgState>>
    /\ UNCHANGED <<deviceAlive, availablePresentModes, notified>>
    /\ UNCHANGED <<winVars, obsVars, faultVars>>

\* ------------------------------------------------------------ specification
Next ==
    \/ MainLoopTest
    \/ PollEvents
    \/ WaitForFences
    \/ AcquireNextImage
    \/ UpdateUniformBuffer
    \/ ResetFences
    \/ ResetCommandBuffer
    \/ RecordCommandBuffer
    \/ QueueSubmit
    \/ QueuePresent
    \/ AdvanceFrame
    \/ GetFramebufferSize
    \/ GetFramebufferSizeLoop
    \/ WaitEvents
    \/ DeviceWaitIdle
    \/ CleanupSwapChainStep
    \/ CreateSwapChain
    \/ CreateImageViews
    \/ CreateFramebuffers
    \/ ExitWaitIdle
    \/ CleanupRest
    \/ WindowResize
    \/ WindowClose
    \/ GpuExecute
    \/ PresentExecute

\* the steps of the host thread
HostNext ==
    \/ MainLoopTest
    \/ PollEvents
    \/ WaitForFences
    \/ AcquireNextImage
    \/ UpdateUniformBuffer
    \/ ResetFences
    \/ ResetCommandBuffer
    \/ RecordCommandBuffer
    \/ QueueSubmit
    \/ QueuePresent
    \/ AdvanceFrame
    \/ GetFramebufferSize
    \/ GetFramebufferSizeLoop
    \/ WaitEvents
    \/ DeviceWaitIdle
    \/ CleanupSwapChainStep
    \/ CreateSwapChain
    \/ CreateImageViews
    \/ CreateFramebuffers
    \/ ExitWaitIdle
    \/ CleanupRest

Spec == Init /\ [][Next]_vars

\* fair GPU progress: a queue with work enabled eventually executes it, and
\* a fence wait whose fence is signaled returns
SpecLive == Spec /\ WF_vars(GpuExecute) /\ WF_vars(PresentExecute) /\ WF_vars(WaitForFences)

\* the same program on a device whose calls with discarded status may fail
SpecFaults == InitFaults /\ [][Next]_vars

\* the host thread keeps running whenever it is not blocked, and the GPU and
\* the presentation engine make progress
SpecFair == Spec /\ WF_vars(HostNext) /\ WF_vars(GpuExecute) /\ WF_vars(PresentExecute)

\* the selection of the present mode, for every list of available modes
NextModes == InitVulkan

SpecModes == InitModes /\ [][NextModes]_vars

\* ================================================================ claims
RecreationOrder ==
    <<"idle", "destroyFramebuffers", "destroyImageViews", "destroySwapChain",
      "createSwapChain", "createImageViews", "createFramebuffers">>

DestroyCalls == {"destroyFramebuffers", "destroyImageViews", "destroySwapChain", "destroyDevice"}

IsPrefix(a, b) == Len(a) <= Len(b) /\ \A k \in 1 .. Len(a) : a[k] = b[k]

\* the GPU calls the active (or last) recreateSwapChain of this iteration issued
RecreateCalls == SubSeq(calls, rcStart + 1, Len(calls))

InRecreate == rcCaller # "none"

\* C1 - fence discipline: between the return of the fence wait on the current
\* slot and the submit, the slot has no submission pending on the GPU, and from
\* the return of the wait until the fence reset the slot's fence is signaled;
\* so the command buffer is reset and recorded only while nothing of it is
\* pending.
C1_FenceDiscipline ==
    /\ pc \in {"acquire", "update", "resetFence"} => inFlightFences[currentFrame]
    /\ pc \in {"acquire", "update", "resetFence", "resetCmd", "record", "submit"}
         => ~SlotPending(currentFrame)

\* the command buffer of a slot that was submitted before is about to be recorded
C1_Witness == pc = "record" /\ Count(slotLog, currentFrame) >= 1

\* C2 - deferred fence reset: from a stale acquire on, the current slot's
\* fence stays signaled until the iteration has returned, and the fence wait
\* of the following iteration finds it signaled.
C2_DeferredFenceReset ==
    /\ acquireResult = VK_ERROR_OUT_OF_DATE_KHR => inFlightFences[currentFrame]
    /\ pc = "waitFence" /\ abortedPrev => inFlightFences[currentFrame]

\* the iteration after an aborted one is at its fence wait
C2_Witness == pc = "waitFence" /\ abortedPrev /\ Len(slotLog) >= 1

\* C3 - aborted frame: an iteration whose acquire reported out-of-date issues
\* no uniform update, fence reset, command-buffer reset, record, submit or
\* present, leaves currentFrame at its entry value, and when it has returned
\* it has issued exactly wait, acquire and one full recreation.
C3_AbortedFrame ==
    acquireResult = VK_ERROR_OUT_OF_DATE_KHR =>
        /\ \A k \in 1 .. Len(calls) :
               calls[k] \notin {"updateUniform", "resetFence", "resetCmd", "record", "submit", "present"}
        /\ currentFrame = entryFrame
        /\ recreated <= 1
        /\ pc \in {"loop", "poll"} =>
               /\ recreated = 1
               /\ calls = <<"waitFence", "acquire">> \o RecreationOrder

\* an aborted iteration has returned to the main loop
C3_Witness == pc = "loop" /\ acquireResult = VK_ERROR_OUT_OF_DATE_KHR /\ completed >= 1

C5_NoUseAfterDestroy ==
    /\ gfxQueue # <<>> \/ presentQueue # <<>> =>
           /\ swapChainAlive /\ imageViewsAlive /\ framebuffersAlive /\ deviceAlive
           /\ \A k \in 1 .. Len(gfxQueue) : ~gfxQueue[k].stale
           /\ \A k \in 1 .. Len(presentQueue) : ~presentQueue[k].stale
    /\ \A k \in 1 .. Len(calls) :
           calls[k] \in DestroyCalls =>
               \E j \in 1 .. k :
                   /\ calls[j] = "idle"
                   /\ \A m \in j .. k : calls[m] \notin {"submit", "present"}

\* the framebuffers are destroyed in an iteration that submitted and presented
C5_Witness ==
    /\ ~framebuffersAlive
    /\ \E k \in 1 .. Len(calls) : calls[k] = "present"

\* C6 - minimized-window stall: recreateSwapChain issues no GPU call before
\* it has left the size loop, stays in the loop body only with a size that is
\* zero in a dimension, and once it is past the loop the size it last read is
\* nonzero in both dimensions.
C6_MinimizedStall ==
    /\ pc \in {"rcSize", "rcSizeLoop", "rcWaitEvents", "rcIdle"} => RecreateCalls = <<>>
    /\ pc = "rcSizeLoop" => (width = 0 \/ height = 0)
    /\ InRecreate /\ pc \notin {"rcSize", "rcSizeLoop", "rcWaitEvents"} => (width # 0 /\ height # 0)

\* the procedure has read a zero size and waits for window events
C6_Witness == pc = "rcWaitEvents" /\ (width = 0 \/ height = 0) /\ winH = 0

FramesInFlight(i) == Cardinality({k \in 1 .. Len(gfxQueue) : gfxQueue[k].slot = i})

\* C7 - in-flight bound: at most MAX_FRAMES_IN_FLIGHT fences are unsignaled,
\* each slot has at most one submission pending, a pending submission's fence
\* is unsignaled, and at most MAX_FRAMES_IN_FLIGHT submissions are pending.
C7_InFlightBound ==
    /\ Cardinality({i \in Slots : ~inFlightFences[i]}) <= MAX_FRAMES_IN_FLIGHT
    /\ \A i \in Slots : FramesInFlight(i) <= 1
    /\ \A i \in Slots : SlotPending(i) => ~inFlightFences[i]
    /\ Len(gfxQueue) <= MAX_FRAMES_IN_FLIGHT

\* as many frames are in flight as the bound allows
C7_Witness == Len(gfxQueue) = MAX_FRAMES_IN_FLIGHT

\* C8 - frame counter cycling: currentFrame is a slot index and equals the
\* number of completed iterations modulo MAX_FRAMES_IN_FLIGHT, so every
\* MAX_FRAMES_IN_FLIGHT completed iterations bring it back, whatever number of
\* aborted iterations lies between them.
C8_FrameCounterCycling ==
    /\ currentFrame \in Slots
    /\ currentFrame = completed % MAX_FRAMES_IN_FLIGHT

\* MAX_FRAMES_IN_FLIGHT iterations completed with an aborted one between them
C8_Witness ==
    /\ pc = "loop"
    /\ completed = MAX_FRAMES_IN_FLIGHT
    /\ abortedPrev
    /\ currentFrame = 0

DrawFramePcs ==
    {"loop", "poll", "waitFence", "acquire", "update", "resetFence", "resetCmd",
     "record", "submit", "present", "advance"}

FrameCalls ==
    <<"waitFence", "acquire", "updateUniform", "resetFence", "resetCmd", "record",
      "submit", "present">>

\* C9 - steady state: as long as every acquire and present returned success
\* and no resize notification was delivered, each finished iteration issued
\* exactly one submit and then one present, no recreation call was issued,
\* and the j-th submit used slot (j-1) mod MAX_FRAMES_IN_FLIGHT.
C9_SteadyState ==
    steady =>
        /\ ~InRecreate /\ recreated = 0
        /\ pc \in DrawFramePcs =>
               \A k \in 1 .. Len(calls) :
                   \A j \in 1 .. Len(RecreationOrder) : calls[k] # RecreationOrder[j]
        /\ slotLog = [j \in 1 .. Len(slotLog) |-> (j - 1) % MAX_FRAMES_IN_FLIGHT]
        /\ presents <= Len(slotLog) /\ Len(slotLog) <= presents + 1
        /\ Len(slotLog) <= iter /\ iter <= Len(slotLog) + 1
        /\ pc \in {"loop", "poll"} =>
               /\ Len(slotLog) = iter /\ presents = iter /\ completed = iter
               /\ iter > 0 => calls = FrameCalls

\* MaxIter undisturbed iterations have finished
C9_Witness == steady /\ pc = "loop" /\ iter = MaxIter /\ Len(slotLog) = MaxIter

StalePresent == presentResult \in {VK_ERROR_OUT_OF_DATE_KHR, VK_SUBOPTIMAL_KHR}

\* C11 - present-side staleness: when present reported out-of-date or
\* suboptimal, the recreation is entered after the present call (the calls
\* before it are the full frame, ending with submit and present), at that
\* moment the present request that waits on the slot's render-finished
\* semaphore is the newest request on the present queue, and exactly one
\* recreation has been performed when the iteration reaches the advance step.
C11_PresentSideRecreation ==
    /\ [](/\ InRecreate /\ acquireResult # VK_ERROR_OUT_OF_DATE_KHR =>
                /\ rcCaller = "present"
                /\ rcStart = Len(FrameCalls)
                /\ SubSeq(calls, 1, rcStart) = FrameCalls
          /\ StalePresent =>
                /\ pc # "failed" => InRecreate \/ pc \in {"advance", "loop", "poll", "exitIdle", "cleanupRest", "done"} \/ csCaller = "cleanup"
                /\ recreated <= 1
                /\ pc = "advance" =>
                       /\ recreated = 1
                       /\ calls = FrameCalls \o RecreationOrder)
    /\ [][pc = "present" /\ pc' = "rcSize" /\ presentResult' \in {VK_ERROR_OUT_OF_DATE_KHR, VK_SUBOPTIMAL_KHR} =>
             /\ presentQueue' # <<>>
             /\ presentQueue'[Len(presentQueue')] = PresentInfo(currentFrame, imageIndex)
             /\ slotLog[Len(slotLog)] = currentFrame]_vars

\* the recreation after a present that reported out-of-date has finished
C11_Witness ==
    /\ pc = "advance"
    /\ presentResult = VK_ERROR_OUT_OF_DATE_KHR
    /\ acquireResult = VK_SUCCESS
    /\ ~resizedSeen
    /\ recreated = 1

\* C12 - fatal statuses: once a GPU call of drawFrame or recreateSwapChain has
\* returned a status that is neither success nor a stale-surface status of
\* acquire or present, an error is raised: the host is in the failed state
\* and issues no further call.
C12_FatalStatuses == fatalSeen => pc = "failed"

StaleStatuses == {VK_ERROR_OUT_OF_DATE_KHR, VK_SUBOPTIMAL_KHR}

\* C13 - transient statuses are not errors: the failed state is entered only
\* after some call returned a fatal status, never on an out-of-date or
\* suboptimal status alone; and when an iteration whose acquire or present
\* reported such a status has returned to the main loop, the swapchain, its
\* image views and its framebuffers exist.
C13_TransientNotErrors ==
    /\ pc = "failed" => fatalSeen
    /\ (acquireResult \in StaleStatuses \/ presentResult \in StaleStatuses) /\ pc \in {"loop", "poll", "waitFence"} =>
           swapChainAlive /\ imageViewsAlive /\ framebuffersAlive

\* after a suboptimal acquire and an out-of-date present the loop goes on
C13_Witness ==
    /\ pc = "poll"
    /\ acquireResult = VK_SUBOPTIMAL_KHR
    /\ presentResult = VK_ERROR_OUT_OF_DATE_KHR
    /\ ~fatalSeen

\* every slot's fence is signaled or a submission that signals it is pending,
\* except for the current slot between its fence reset and its submit
FenceWillSignal ==
    \A i \in Slots :
        \/ inFlightFences[i]
        \/ SlotPending(i)
        \/ i = currentFrame /\ pc \in {"resetCmd", "record", "submit", "failed"}

\* C14 - no host deadlock at wait-for-slot: whenever drawFrame is at its fence
\* wait, the current slot's fence is signaled or a submission that will signal
\* it is pending on the graphics queue; so under fair GPU progress every fence
\* wait returns.
C14_NoDeadlockAtWait ==
    /\ [](FenceWillSignal /\ (pc = "waitFence" => inFlightFences[currentFrame] \/ SlotPending(currentFrame)))
    /\ (pc = "waitFence" ~> pc = "acquire")

\* the host waits on a fence that only a pending submission will signal
C14_Witness ==
    /\ pc = "waitFence"
    /\ ~inFlightFences[currentFrame]
    /\ SlotPending(currentFrame)

\* C15 - extent matches window: every swapchain that createSwapChain creates
\* inside recreateSwapChain has the extent of the window's framebuffer at that
\* moment, and that extent is nonzero in both dimensions.
C15_ExtentMatchesWindow ==
    [][InRecreate /\ pc = "createSwapChain" /\ pc' = "createImageViews" =>
           /\ swapChainExtent' = <<winW, winH>>
           /\ swapChainExtent'[1] # 0 /\ swapChainExtent'[2] # 0]_vars

\* C16 - resize notification response: the flag set by the resize callback
\* stays set until a present step reads it; the iteration whose present step
\* found it set enters a recreation right after present with the flag already
\* cleared, and has performed exactly one recreation, after the eight frame
\* calls, when it reaches the advance step, whatever acquire and present
\* returned.
C16_ResizeResponse ==
    /\ [](resizedSeen =>
             /\ rcCaller = "present" \/ recreated = 1
             /\ pc = "rcSize" => ~framebufferResized
             /\ pc = "advance" => recreated = 1 /\ calls = FrameCalls \o RecreationOrder)
    /\ [][framebufferResized /\ ~framebufferResized' =>
             pc = "present" /\ pc' = "rcSize" /\ resizedSeen']_vars

\* acquire and present both returned success and the flag alone made the
\* iteration recreate
C16_Witness ==
    /\ pc = "advance"
    /\ resizedSeen
    /\ acquireResult = VK_SUCCESS
    /\ presentResult = VK_SUCCESS
    /\ recreated = 1
    /\ ~framebufferResized

PresentsPending(i) == Cardinality({k \in 1 .. Len(presentQueue) : presentQueue[k].slot = i})

\* C17 - per-slot semaphore chain: a pending submission finds its slot's
\* image-available semaphore signaled by the acquire of its frame; the frame
\* records, submits and presents the image its acquire returned; every
\* pending present waits on a render-finished semaphore that is signaled or
\* will be signaled by a pending submission of the same slot; and a present
\* that can execute is never ahead of the rendering of the image it presents.
C17_SemaphoreChain ==
    /\ \A k \in 1 .. Len(gfxQueue) : imageAvailable[gfxQueue[k].slot] >= 1
    /\ pc \in {"update", "resetFence", "resetCmd", "record", "submit"} =>
           /\ imageAvailable[currentFrame] >= 1
           /\ imgState[imageIndex] = "acquired"
    /\ pc = "present" =>
           /\ commandBuffers[currentFrame].image = imageIndex
           /\ slotLog[Len(slotLog)] = currentFrame
           /\ SlotPending(currentFrame) \/ renderFinished[currentFrame] >= 1
    /\ \A i \in Slots : PresentsPending(i) <= renderFinished[i] + FramesInFlight(i)
    /\ \A k \in 1 .. Len(presentQueue) : imgState[presentQueue[k].image] = "queued"
    /\ presentQueue # <<>> /\ renderFinished[Head(presentQueue).slot] >= 1 =>
           \A k \in 1 .. Len(gfxQueue) : gfxQueue[k].image # Head(presentQueue).image

\* number of frame calls drawFrame has issued when it is at a step
StepIndex(p) ==
    CASE p = "waitFence" -> 0
      [] p = "acquire" -> 1
      [] p = "update" -> 2
      [] p = "resetFence" -> 3
      [] p = "resetCmd" -> 4
      [] p = "record" -> 5
      [] p = "submit" -> 6
      [] p = "present" -> 7
      [] OTHER -> Len(FrameCalls)

\* C18 - step order inside a frame: the calls of an iteration that is not
\* aborted are, in this order, fence wait, acquire, uniform update, fence
\* reset, command-buffer reset, record, submit, present; the counter advances
\* after all eight; the uniform update lies between acquire and fence reset;
\* and an iteration that issued a fence reset was not aborted at acquire.
C18_StepOrder ==
    /\ iter >= 1 /\ acquireResult # VK_ERROR_OUT_OF_DATE_KHR =>
           /\ IsPrefix(calls, FrameCalls) \/ IsPrefix(FrameCalls, calls)
           /\ pc \in {"waitFence", "acquire", "update", "resetFence", "resetCmd", "record", "submit", "present"} =>
                  /\ Len(calls) = StepIndex(pc)
                  /\ currentFrame = entryFrame
           /\ pc = "advance" => IsPrefix(FrameCalls, calls)
    /\ \A k \in 1 .. Len(calls) :
           calls[k] = "resetFence" =>
               /\ acquireResult \in {VK_SUCCESS, VK_SUBOPTIMAL_KHR}
               /\ k = 4 /\ calls[2] = "acquire" /\ calls[3] = "updateUniform"
               /\ pc # "failed" /\ pc \notin {"resetCmd", "record", "submit"} => Count(calls, "submit") = 1
    /\ Count(calls, "submit") = 1 => Count(calls, "resetFence") = 1

\* a second iteration has issued its eight calls and is about to advance
C18_Witness ==
    /\ pc = "advance"
    /\ calls = FrameCalls
    /\ completed = 1
    /\ currentFrame = 1

\* drawFrame is not executing: the host is in mainLoop or in cleanup
OutsideDrawFrame ==
    \/ pc \in {"loop", "poll", "exitIdle", "cleanupRest", "done"}
    \/ csCaller = "cleanup"

\* C19 - frame counter ownership: currentFrame changes only in the advance
\* step, by one modulo MAX_FRAMES_IN_FLIGHT; while an iteration runs,
\* recreations included, it has its entry value; and when an iteration has
\* returned, it has advanced exactly once if the iteration reached present and
\* not at all otherwise.
C19_FrameCounterOwnership ==
    /\ [][currentFrame' # currentFrame =>
             /\ pc = "advance"
             /\ currentFrame' = (currentFrame + 1) % MAX_FRAMES_IN_FLIGHT]_vars
    /\ [](currentFrame = IF OutsideDrawFrame /\ presentResult # NoResult
                         THEN (entryFrame + 1) % MAX_FRAMES_IN_FLIGHT
                         ELSE entryFrame)

\* an iteration that recreated because of the resize flag alone has returned
\* with the counter advanced once
C19_Witness ==
    /\ pc = "loop"
    /\ resizedSeen
    /\ presentResult = VK_SUCCESS
    /\ recreated = 1
    /\ entryFrame = 1
    /\ currentFrame = 0

\* recreateSwapChain is past its idle-wait
RecreateSteps ==
    /\ InRecreate
    /\ pc \in {"csFramebuffers", "csImageViews", "csSwapChain",
               "createSwapChain", "createImageViews", "createFramebuffers"}

\* C20 - recreation frame condition: from the return of the idle-wait to the
\* return of recreateSwapChain nothing changes the frame counter, the fences
\* and semaphores of the slots (they keep the state the idle-wait left), the
\* state and content of the command buffers, or the objects that only
\* cleanup() destroys (render pass, pipeline, sync objects, device).
C20_RecreationFrame ==
    [][RecreateSteps =>
           /\ currentFrame' = currentFrame
           /\ inFlightFences' = inFlightFences
           /\ imageAvailable' = imageAvailable
           /\ renderFinished' = renderFinished
           /\ deviceAlive' = deviceAlive
           /\ \A i \in Slots :
                  /\ commandBuffers'[i].state = commandBuffers[i].state
                  /\ commandBuffers'[i].image = commandBuffers[i].image]_vars

\* a recreation is rebuilding the swapchain while both command buffers hold
\* recorded frames
C20_Witness ==
    /\ pc = "createImageViews"
    /\ rcCaller = "present"
    /\ \A i \in Slots : commandBuffers[i].state = "executable"
    /\ currentFrame = 1

\* C21 - pre-signaled fences: the fence of a slot that no submission has used
\* yet is signaled whenever drawFrame is at its fence wait or between the wait
\* and the fence reset on that slot, so the first wait on each slot returns at
\* once; and a slot never submitted has nothing pending.
C21_PreSignaledFences ==
    \A i \in Slots :
        Count(slotLog, i) = 0 =>
            /\ ~SlotPending(i)
            /\ i # currentFrame \/ pc \in {"loop", "poll", "waitFence", "acquire", "update", "resetFence"}
                   => inFlightFences[i]
            /\ i = currentFrame /\ pc = "waitFence" => FenceWaitReturns(inFlightFences[i])

\* the first fence wait on the second slot has returned
C21_Witness ==
    /\ pc = "acquire"
    /\ currentFrame = 1
    /\ slotLog = <<0>>
    /\ Len(gfxQueue) = 1

\* C22 - fatal errors stop the frame immediately: once acquire or present
\* returned a fatal status, or recording or submit failed, the host is in the
\* failed state, the failing call is the last call of the iteration (no
\* present after a failed submit) and the frame counter has its entry value.
C22_FatalStopsFrame ==
    /\ acquireResult = VK_ERROR_DEVICE_LOST =>
           pc = "failed" /\ calls = SubSeq(FrameCalls, 1, 2) /\ currentFrame = entryFrame
    /\ presentResult = VK_ERROR_DEVICE_LOST =>
           pc = "failed" /\ calls = FrameCalls /\ currentFrame = entryFrame
    /\ pc = "failed" /\ presentResult = NoResult =>
           /\ Count(calls, "present") = 0
           /\ currentFrame = entryFrame

\* the host thread is inside a call that does not return in this state
HostBlocked ==
    /\ pc \notin {"done", "failed"}
    /\ ~(pc = "loop" /\ ~shouldClose)
    /\ ~ENABLED HostNext

C24_ImageIndexValid ==
    /\ pc \in {"update", "resetFence", "resetCmd", "record", "submit", "present"} =>
           /\ acquireResult \in {VK_SUCCESS, VK_SUBOPTIMAL_KHR}
           /\ recreated = 0 /\ ~InRecreate
           /\ swapChainAlive /\ imageViewsAlive /\ framebuffersAlive
           /\ imageIndex \in Images /\ imageIndex < NumImages
           /\ imgState[imageIndex] = "acquired"
    /\ pc \in {"submit", "present"} =>
           /\ commandBuffers[currentFrame].image = imageIndex
           /\ ~commandBuffers[currentFrame].stale
    /\ \A k \in 1 .. Len(presentQueue) :
           ~presentQueue[k].stale /\ presentQueue[k].image \in Images

\* a frame that follows an aborted one presents an image of the new swapchain
C24_Witness ==
    /\ pc = "present"
    /\ abortedPrev
    /\ imageIndex = 0
    /\ presents >= 1

\* C25 - render-finished semaphore reuse: when drawFrame issues the submit
\* that will signal renderFinishedSemaphores[currentFrame], no earlier present
\* request waiting on that semaphore is still pending in the presentation
\* engine, and the binary semaphore never holds a second signal.
C25_RenderFinishedReuse ==
    /\ [](\A i \in Slots : renderFinished[i] <= 1)
    /\ [][pc = "submit" /\ pc' = "present" => ~PresentPending(currentFrame)]_vars

\* C26 - image-available semaphore consumption: when drawFrame calls acquire
\* with imageAvailableSemaphores[currentFrame] the semaphore has no pending
\* signal and no pending wait; a semaphore armed by a successful or suboptimal
\* acquire is waited on by exactly one submission (the one of that frame), and
\* an out-of-date acquire leaves it unsignaled through the recreation.
C26_ImageAvailableConsumed ==
    /\ pc = "acquire" =>
           /\ imageAvailable[currentFrame] = 0
           /\ ~SlotPending(currentFrame)
    /\ \A i \in Slots :
           /\ imageAvailable[i] <= 1
           /\ FramesInFlight(i) <= imageAvailable[i]
           /\ imageAvailable[i] = 1 /\ FramesInFlight(i) = 0 =>
                  /\ i = currentFrame
                  /\ pc \in {"update", "resetFence", "resetCmd", "record", "submit", "failed"}
                  /\ acquireResult \in {VK_SUCCESS, VK_SUBOPTIMAL_KHR}
    /\ acquireResult = VK_ERROR_OUT_OF_DATE_KHR =>
           /\ imageAvailable[currentFrame] = 0
           /\ ~SlotPending(currentFrame)

\* the slot of a frame aborted by an out-of-date acquire is acquired with again
C26_Witness ==
    /\ pc = "acquire"
    /\ abortedPrev
    /\ slotLog = <<0>>
    /\ currentFrame = 1

\* the current iteration has run a recreation to its end and drawFrame is
\* about to return or has returned
IterationRecreated == pc \in {"advance", "loop", "poll"} /\ recreated >= 1

\* C27 - one recreation per resize: when the drawFrame iteration of a
\* recreation ends and no resize notification arrived after the recreation
\* started (none was delivered and none is waiting to be delivered),
\* framebufferResized is false (so it triggers no further recreation),
\* whichever path performed the recreation.
C27_OneRecreationPerResize ==
    IterationRecreated /\ ~notified /\ ~resizeEvent => ~framebufferResized

\* C27 (amended) - a recreation performed by the post-present check clears
\* framebufferResized when it starts, so with no resize notification
\* afterwards the flag is false when that iteration ends; a recreation
\* performed on an out-of-date acquire leaves framebufferResized as it was
\* (only a resize notification changes it), so a flag set before it is still
\* set afterwards; an iteration runs at most one recreation.
C27_PresentPathClearsFlag ==
    /\ [](IterationRecreated /\ presentResult # NoResult /\ ~notified => ~framebufferResized)
    /\ [](recreated <= 1)
    /\ [][(rcCaller = "acquire" \/ rcCaller' = "acquire")
            /\ framebufferResized' # framebufferResized => framebufferResized' /\ notified']_vars

\* the iteration after an out-of-date acquire recreates again on the flag alone
C27_Witness ==
    /\ pc = "advance"
    /\ recreated = 1
    /\ abortedPrev
    /\ resizedSeen
    /\ acquireResult = VK_SUCCESS
    /\ presentResult = VK_SUCCESS
    /\ ~notified
    /\ ~framebufferResized

\* C28 - leaving the minimized wait: in recreateSwapChain, once a framebuffer
\* size query has returned a size that is nonzero in both dimensions, no
\* further blocking wait for window events is performed: the procedure is
\* about to call glfwWaitEvents only with a last-read size that is minimized.
C28_NoWaitAfterNonzeroSize ==
    pc = "rcWaitEvents" => Minimized(width, height)

\* the main loop has been left: by its exit or by an exception
LoopLeft == pc \in {"exitIdle", "cleanupRest", "done", "failed"} \/ csCaller = "cleanup"

\* C29 - shutdown liveness and order: once the window's close request is true
\* the main loop eventually stops calling drawFrame, in every loop state
\* including a recreation waiting for a nonzero window size; it then waits for
\* the device to be idle, and only after that does cleanup destroy anything.
C29_ShutdownLiveness ==
    /\ shouldClose ~> LoopLeft
    /\ [](csCaller = "cleanup" \/ pc \in {"cleanupRest", "done"} => shouldClose /\ DeviceIdle)
    /\ [](~deviceAlive => pc = "done")
    /\ [](pc \notin {"exitIdle", "cleanupRest", "done"} /\ csCaller # "cleanup" /\ ~InRecreate =>
             swapChainAlive /\ imageViewsAlive /\ framebuffersAlive /\ deviceAlive)

\* the present mode the selection is meant to return for a list of modes
PreferredMode(modes) ==
    IF \E k \in 1 .. Len(modes) : modes[k] = VK_PRESENT_MODE_MAILBOX_KHR
    THEN VK_PRESENT_MODE_MAILBOX_KHR
    ELSE VK_PRESENT_MODE_FIFO_KHR

\* C30 - present-mode selection: chooseSwapPresentMode returns the mailbox
\* present mode whenever it is contained in the list of available present
\* modes and returns FIFO otherwise.
C30_PresentModeSelection ==
    presentMode # NoMode => presentMode = PreferredMode(availablePresentModes)

====
